---- MODULE Spec2Model ----
(***************************************************************************)
(* Model of the hill-climbing path search of src/src/lib.rs: the text is   *)
(* parsed into a Surface (Surface::new) and a Player (Player::new), and    *)
(* Player::shortest_path explores the grid depth first, pruning with the   *)
(* visited set, the best length found so far and the distance map.         *)
(*                                                                         *)
(* Characters are their ASCII codes.  A Position is [x |-> column,         *)
(* y |-> row], 0-indexed as in the source; heights and distmap are         *)
(* sequences of rows, so cell (x, y) is heights[y + 1][x + 1].             *)
(***************************************************************************)
EXTENDS Integers, Sequences, FiniteSets

\* ------------------------------------------------------------ characters
CharS == 83
CharE == 69
CharLowA == 97
CharLowZ == 122
CharLF == 10
CharCR == 13

\* usize::MAX.  The model checker's integers are 32 bits wide, so the
\* sentinel is the largest of them; the code only compares it, takes
\* minima with it and subtracts one from it, and every real path length is
\* below the number of grid cells.
UsizeMax == 2147483647

Min(a, b) == IF a <= b THEN a ELSE b

Pos(x, y) == [x |-> x, y |-> y]

\* ------------------------------------------------------------ str helpers
\* char::is_ascii_lowercase
is_ascii_lowercase(c) == CharLowA <= c /\ c <= CharLowZ

\* str::contains(char)
Contains(line, c) == \E i \in 1..Len(line) : line[i] = c

\* str::find(char): byte offset of the first occurrence (the caller has
\* checked that there is one)
Find(line, c) ==
    (CHOOSE i \in 1..Len(line) :
        line[i] = c /\ \A j \in 1..(i - 1) : line[j] # c) - 1

\* str::split_inclusive('\n'): pieces that keep their terminating newline
RECURSIVE SplitInclusive(_)
SplitInclusive(s) ==
    IF s = <<>> THEN <<>>
    ELSE IF ~Contains(s, CharLF) THEN <<s>>
    ELSE LET nl == Find(s, CharLF) + 1
         IN  <<SubSeq(s, 1, nl)>> \o SplitInclusive(SubSeq(s, nl + 1, Len(s)))

\* the closure of str::lines: strip one "\n", and a "\r" before it (no
\* input text of this model holds a "\r")
StripLineEnding(piece) ==
    IF Len(piece) > 0 /\ piece[Len(piece)] = CharLF
    THEN LET l == SubSeq(piece, 1, Len(piece) - 1)
         IN  IF Len(l) > 0 /\ l[Len(l)] = CharCR
             THEN SubSeq(l, 1, Len(l) - 1)
             ELSE l
    ELSE piece

\* str::lines
Lines(s) ==
    LET pieces == SplitInclusive(s)
    IN  [i \in 1..Len(pieces) |-> StripLineEnding(pieces[i])]

\* ------------------------------------------------------------ Surface::new
\* the character map of Surface::new; the last branch is the panic
ValidHeightChar(c) == is_ascii_lowercase(c) \/ c = CharS \/ c = CharE

HeightOfChar(c) ==
    IF is_ascii_lowercase(c) THEN c
    ELSE IF c = CharS THEN CharLowA
    ELSE CharLowZ

\* position of the first `marker`: x from the first line containing it,
\* y the index of that line
HasMarker(text, marker) ==
    LET ls == Lines(text)
    IN  \E i \in 1..Len(ls) : Contains(ls[i], marker)

MarkerPositionTransposed(text, marker) ==
    LET ls == Lines(text)
        first == CHOOSE i \in 1..Len(ls) :
                    Contains(ls[i], marker)
                    /\ \A j \in 1..(i - 1) : ~Contains(ls[j], marker)
    IN  Pos(first - 1, Find(ls[first], marker))

MarkerPosition(text, marker) ==
    LET ls == Lines(text)
        first == CHOOSE i \in 1..Len(ls) :
                    Contains(ls[i], marker)
                    /\ \A j \in 1..(i - 1) : ~Contains(ls[j], marker)
    IN  Pos(Find(ls[first], marker), first - 1)

\* Surface::new panics on a character it does not know and on unwrap()
\* of a missing 'E'
SurfaceNewPanics(text) ==
    LET ls == Lines(text)
    IN  \/ \E i \in 1..Len(ls) :
              \E j \in 1..Len(ls[i]) : ~ValidHeightChar(ls[i][j])
        \/ ~HasMarker(text, CharE)

SurfaceNew(text) ==
    LET ls == Lines(text)
    IN  [best_signal |-> MarkerPosition(text, CharE),
         heights |-> [i \in 1..Len(ls) |->
                        [j \in 1..Len(ls[i]) |-> HeightOfChar(ls[i][j])]]]

\* Surface::width, Surface::height
width(surface) == Len(surface.heights[1])
height(surface) == Len(surface.heights)

\* surface.heights[y][x], and whether that index is in range
InRange(rows, x, y) == y + 1 <= Len(rows) /\ x + 1 <= Len(rows[y + 1])
At(rows, x, y) == rows[y + 1][x + 1]

\* ------------------------------------------------------------ Player::new
PlayerNewPanics(text) == ~HasMarker(text, CharS)

PlayerNew(text) ==
    [position |-> MarkerPosition(text, CharS), previous |-> {}]

\* ------------------------------------------------------------ Player::step
StepDropsHistory(player, dir) ==
    [position |->
        IF dir = "Up" THEN Pos(player.position.x, player.position.y - 1)
        ELSE IF dir = "Down" THEN Pos(player.position.x, player.position.y + 1)
        ELSE IF dir = "Left" THEN Pos(player.position.x - 1, player.position.y)
        ELSE Pos(player.position.x + 1, player.position.y),
     previous |-> player.previous]

step(player, dir) ==
    [position |->
        IF dir = "Up" THEN Pos(player.position.x, player.position.y - 1)
        ELSE IF dir = "Down" THEN Pos(player.position.x, player.position.y + 1)
        ELSE IF dir = "Left" THEN Pos(player.position.x - 1, player.position.y)
        ELSE Pos(player.position.x + 1, player.position.y),
     previous |-> player.previous \cup {player.position}]

\* ------------------------------------------------------------ available_moves
\* the closure height_check
height_checkStrict(this_height, next_height, up) ==
    IF up THEN this_height + 1 > next_height
    ELSE this_height - 1 < next_height

height_check(this_height, next_height, up) ==
    IF up THEN this_height + 1 >= next_height
    ELSE this_height - 1 <= next_height

\* `surface.width() - 1` and `surface.height() - 1` in usize: 0 - 1 panics
\* in a build with overflow checks (available_movesPanics) and wraps to
\* usize::MAX without them
UsizeDecrement(n) ==
    IF n > 0 THEN n - 1 ELSE UsizeMax

\* the build profiles that matter to a call on this surface
BuildProfiles(surface) ==
    IF width(surface) = 0 THEN BOOLEAN ELSE {TRUE}

\* the four candidate directions in the order the code tries them, with the
\* bounds test of each and the neighbour it reads
Candidates(surface, position) ==
    LET x == position.x
        y == position.y
    IN  << [m |-> "Right",
            tried |-> x < UsizeDecrement(width(surface)),
            nx |-> x + 1, ny |-> y],
           [m |-> "Left", tried |-> x > 0, nx |-> x - 1, ny |-> y],
           [m |-> "Down",
            tried |-> y < UsizeDecrement(height(surface)),
            nx |-> x, ny |-> y + 1],
           [m |-> "Up", tried |-> y > 0, nx |-> x, ny |-> y - 1] >>

\* available_moves panics on an index out of range (rows of unequal
\* length) and on the overflow of width() - 1
available_movesPanics(surface, position, overflow_checks) ==
    LET cs == Candidates(surface, position)
    IN  \/ ~InRange(surface.heights, position.x, position.y)
        \/ (width(surface) = 0 /\ overflow_checks)
        \/ \E i \in 1..4 :
              cs[i].tried /\ ~InRange(surface.heights, cs[i].nx, cs[i].ny)

\* moves.push(...) for every direction that passes both tests
RECURSIVE PushMoves(_, _, _, _, _)
PushMoves(surface, position, up, cs, i) ==
    IF i > Len(cs) THEN <<>>
    ELSE LET c == cs[i]
             this_height == At(surface.heights, position.x, position.y)
             rest == PushMoves(surface, position, up, cs, i + 1)
         IN  IF c.tried
                /\ height_check(this_height,
                                At(surface.heights, c.nx, c.ny), up)
             THEN <<[m |-> c.m, h |-> At(surface.heights, c.nx, c.ny)]>>
                    \o rest
             ELSE rest

\* sort_unstable_by_key on a slice this short is an insertion sort: equal
\* keys keep their order (the doc tests of available_moves fix this order)
RECURSIVE InsertByKey(_, _)
InsertByKey(sorted, e) ==
    IF sorted = <<>> THEN <<e>>
    ELSE IF sorted[Len(sorted)].h <= e.h THEN Append(sorted, e)
    ELSE Append(InsertByKey(SubSeq(sorted, 1, Len(sorted) - 1), e),
                sorted[Len(sorted)])

RECURSIVE SortByKey(_)
SortByKey(s) ==
    IF s = <<>> THEN <<>>
    ELSE InsertByKey(SortByKey(SubSeq(s, 1, Len(s) - 1)), s[Len(s)])

Reverse(s) == [i \in 1..Len(s) |-> s[Len(s) + 1 - i]]

\* the list available_moves returns when it does not panic
available_moves(surface, position, up) ==
    LET pushed == PushMoves(surface, position, up,
                            Candidates(surface, position), 1)
        sorted == Reverse(SortByKey(pushed))
    IN  [i \in 1..Len(sorted) |-> sorted[i].m]

\* ------------------------------------------------------------ goal predicates
\* at_top (find_shortest_path_up) and at_bottom (find_shortest_path_down)
at_top(position, surface) == position = surface.best_signal

at_bottom(position, surface) ==
    At(surface.heights, position.x, position.y) = CharLowA

\* ------------------------------------------------------------ inputs
\* Three families of input text:
\*   grids     rectangular texts of at most MaxCells cells with one 'S',
\*             one 'E' and letters of GridLetters elsewhere;
\*   raw texts every string of at most MaxRawLen characters of RawChars
\*             (malformed texts of every kind, and the smallest valid ones);
\*   templates the grid of the doc tests, that grid with one cell
\*             replaced, and three grids of 26 columns, on which the goal
\*             is reached.
MaxCells == 5
MaxRawLen == 5

GridLetters == {97, 98, 99, 121}
RawChars == {83, 69, 97, 35, 10}
PatchLetters == {97, 109, 122}

\* the text of a grid of `rows` lines of `cols` characters, cell k
\* (row-major, from 1) holding cell[k]
TextOf(rows, cols, cell) ==
    [i \in 1..(rows * cols + rows - 1) |->
        IF i % (cols + 1) = 0 THEN CharLF
        ELSE cell[(i \div (cols + 1)) * cols + (i % (cols + 1))]]

\* the shapes of the grids: rows * cols <= MaxCells
Shapes ==
    { rc \in (1..MaxCells) \X (1..MaxCells) : rc[1] * rc[2] <= MaxCells }

\* the grid of shape rc with 'S' in cell s, 'E' in cell e and fill elsewhere
GridText(rc, s, e, fill) ==
    TextOf(rc[1], rc[2],
           [k \in 1..(rc[1] * rc[2]) |->
              IF k = s THEN CharS ELSE IF k = e THEN CharE ELSE fill[k]])

\* the grid of the doc tests (lib.rs lines 43-47), row-major:
\*   Sabqponm / abcryxxl / accszExk / acctuvwj / abdefghi
CanonicalCells ==
    << 83, 97, 98, 113, 112, 111, 110, 109,
       97, 98, 99, 114, 121, 120, 120, 108,
       97, 99, 99, 115, 122, 69, 120, 107,
       97, 99, 99, 116, 117, 118, 119, 106,
       97, 98, 100, 101, 102, 103, 104, 105 >>

CanonicalText == TextOf(5, 8, CanonicalCells)

\* the grid of the doc tests with one cell that is not a marker replaced
PatchedTexts ==
    { TextOf(5, 8, [CanonicalCells EXCEPT ![k] = c]) :
        <<k, c>> \in { kc \in (1..Len(CanonicalCells)) \X PatchLetters :
                         CanonicalCells[kc[1]] \notin {CharS, CharE} } }

\* one line "Sbcd...xyE": the only path climbs one letter per step
AlphabetCols == CharLowZ - CharLowA + 1

LineText ==
    TextOf(1, AlphabetCols,
           [k \in 1..AlphabetCols |->
              IF k = 1 THEN CharS
              ELSE IF k = AlphabetCols THEN CharE
              ELSE CharLowA + k - 1])

\* that line over a row of 'z' with an 'a' under the 'd': a cell that is
\* entered by dropping from 'd' and has no legal move in ascend mode
PitText ==
    TextOf(2, AlphabetCols,
           [k \in 1..(2 * AlphabetCols) |->
              IF k = 1 THEN CharS
              ELSE IF k = AlphabetCols THEN CharE
              ELSE IF k < AlphabetCols THEN CharLowA + k - 1
              ELSE IF k = AlphabetCols + 4 THEN CharLowA
              ELSE CharLowZ])

\* the line "Eyxw...cbS" over a row of 'b' with a 'z' under the 'w': a cell
\* that is entered by climbing from 'w' and has no legal move in descend
\* mode
PeakText ==
    TextOf(2, AlphabetCols,
           [k \in 1..(2 * AlphabetCols) |->
              IF k = 1 THEN CharE
              ELSE IF k = AlphabetCols THEN CharS
              ELSE IF k < AlphabetCols THEN CharLowZ - k + 1
              ELSE IF k = AlphabetCols + 4 THEN CharLowZ
              ELSE CharLowA + 1])

TemplateTexts ==
    {CanonicalText, LineText, PitText, PeakText} \cup PatchedTexts

\* ------------------------------------------------------------ state
VARIABLES
    input,      \* the text handed to shortest_path_up / shortest_path_down
    up,         \* TRUE: shortest_path_up, FALSE: shortest_path_down
    pc,         \* "input", "search", "done" or "panic"
    surface,    \* the Surface once built
    distmap,    \* the distance map of the running search
    stack,      \* the active calls of shortest_path, innermost last
    result      \* the value the top-level call returned

vars == <<input, up, pc, surface, distmap, stack, result>>

NoSurface == [best_signal |-> Pos(0, 0), heights |-> <<>>]

\* the locals of a call of shortest_path: self (position, previous),
\* new_max, paths, the moves of the for loop not yet taken, and whether
\* the call has passed its four tests and entered the else branch
Frame(player, max_depth) ==
    [position |-> player.position,
     previous |-> player.previous,
     new_max |-> max_depth,
     paths |-> <<>>,
     moves |-> <<>>,
     entered |-> FALSE]

Top == stack[Len(stack)]

\* input is one of the grids
GridInput ==
    \E rc \in Shapes :
        \E s \in 1..(rc[1] * rc[2]) :
            \E e \in (1..(rc[1] * rc[2])) \ {s} :
                \E fill \in [(1..(rc[1] * rc[2])) \ {s, e} -> GridLetters] :
                    input = GridText(rc, s, e, fill)

\* input is one of the raw texts
RawInput ==
    \E n \in 0..MaxRawLen : input \in [1..n -> RawChars]

\* input is one of the templates
TemplateInput == input \in TemplateTexts

Init ==
    /\ (GridInput \/ RawInput \/ TemplateInput)
    /\ up \in BOOLEAN
    /\ pc = "input"
    /\ surface = NoSurface
    /\ distmap = <<>>
    /\ stack = <<>>
    /\ result = 0

\* the distance map both entry points build: height() rows of width()
\* cells, each usize::MAX
NewDistmap(s) ==
    [i \in 1..height(s) |-> [j \in 1..width(s) |-> UsizeMax]]

\* shortest_path_up: Player::new, Surface::new, find_shortest_path_up up
\* to its call of shortest_path
shortest_path_up ==
    /\ pc = "input"
    /\ up
    /\ IF PlayerNewPanics(input) \/ SurfaceNewPanics(input)
       THEN /\ pc' = "panic"
            /\ UNCHANGED <<surface, distmap, stack>>
       ELSE /\ pc' = "search"
            /\ surface' = SurfaceNew(input)
            /\ distmap' = NewDistmap(SurfaceNew(input))
            /\ stack' = <<Frame(PlayerNew(input), UsizeMax)>>
    /\ UNCHANGED <<input, up, result>>

\* shortest_path_down: Surface::new, the Player at best_signal,
\* find_shortest_path_down up to its call of shortest_path
shortest_path_down ==
    /\ pc = "input"
    /\ ~up
    /\ IF SurfaceNewPanics(input)
       THEN /\ pc' = "panic"
            /\ UNCHANGED <<surface, distmap, stack>>
       ELSE /\ pc' = "search"
            /\ surface' = SurfaceNew(input)
            /\ distmap' = NewDistmap(SurfaceNew(input))
            /\ stack' = <<Frame([position |-> SurfaceNew(input).best_signal,
                                 previous |-> {}], UsizeMax)>>
    /\ UNCHANGED <<input, up, result>>
\* ------------------------------------------------------------ shortest_path
\* the end_condition each entry point passes
end_condition(position) ==
    IF up THEN at_top(position, surface) ELSE at_bottom(position, surface)

\* the tests of the else-if chain, in the order the code makes them
RevisitTest(frame) == frame.position \in frame.previous

BoundTest(frame) == Cardinality(frame.previous) >= frame.new_max - 1

DistmapTestStrict(recorded, len) == recorded < len

DistmapTestNever(recorded, len) == FALSE

DistmapTest(recorded, len) == recorded <= len

\* paths.iter().min()
RECURSIVE MinOf(_)
MinOf(paths) ==
    IF Len(paths) = 1 THEN paths[1]
    ELSE Min(paths[1], MinOf(Tail(paths)))

\* `return v`: the top-level call hands v to its caller; a recursive call
\* hands it to the for loop of the call below, which pushes it on paths
\* and lowers new_max
Return(v) ==
    IF Len(stack) = 1
    THEN /\ stack' = <<>>
         /\ result' = v
         /\ pc' = "done"
    ELSE /\ stack' = [SubSeq(stack, 1, Len(stack) - 1) EXCEPT
                        ![Len(stack) - 1].paths = Append(@, v),
                        ![Len(stack) - 1].new_max = Min(v, @)]
         /\ UNCHANGED <<result, pc>>

\* if end_condition(..) { return self.previous.len() }
ReturnAtGoal ==
    /\ pc = "search"
    /\ ~Top.entered
    /\ end_condition(Top.position)
    /\ Return(Cardinality(Top.previous))
    /\ UNCHANGED <<input, up, surface, distmap>>

\* else if self.previous.contains(&self.position) { return usize::MAX }
ReturnRevisit ==
    /\ pc = "search"
    /\ ~Top.entered
    /\ ~end_condition(Top.position)
    /\ RevisitTest(Top)
    /\ Return(UsizeMax)
    /\ UNCHANGED <<input, up, surface, distmap>>

\* else if self.previous.len() >= new_max - 1 { return usize::MAX }
ReturnBound ==
    /\ pc = "search"
    /\ ~Top.entered
    /\ ~end_condition(Top.position)
    /\ ~RevisitTest(Top)
    /\ BoundTest(Top)
    /\ Return(UsizeMax)
    /\ UNCHANGED <<input, up, surface, distmap>>

\* the fourth test reads distmap[y][x]: out of range when the row of the
\* surface is longer than its first row
PanicDistmapIndex ==
    /\ pc = "search"
    /\ ~Top.entered
    /\ ~end_condition(Top.position)
    /\ ~RevisitTest(Top)
    /\ ~BoundTest(Top)
    /\ ~InRange(distmap, Top.position.x, Top.position.y)
    /\ pc' = "panic"
    /\ UNCHANGED <<input, up, surface, distmap, stack, result>>

\* else if distmap[y][x] <= self.previous.len() { return usize::MAX }
ReturnDistmap ==
    /\ pc = "search"
    /\ ~Top.entered
    /\ ~end_condition(Top.position)
    /\ ~RevisitTest(Top)
    /\ ~BoundTest(Top)
    /\ InRange(distmap, Top.position.x, Top.position.y)
    /\ DistmapTest(At(distmap, Top.position.x, Top.position.y),
                   Cardinality(Top.previous))
    /\ Return(UsizeMax)
    /\ UNCHANGED <<input, up, surface, distmap>>

\* the guard of the else branch
EntersElse ==
    /\ pc = "search"
    /\ ~Top.entered
    /\ ~end_condition(Top.position)
    /\ ~RevisitTest(Top)
    /\ ~BoundTest(Top)
    /\ InRange(distmap, Top.position.x, Top.position.y)
    /\ ~DistmapTest(At(distmap, Top.position.x, Top.position.y),
                    Cardinality(Top.previous))

\* distmap[y][x] = self.previous.len()
RecordDistance ==
    distmap' = [distmap EXCEPT ![Top.position.y + 1][Top.position.x + 1] =
                                    Cardinality(Top.previous)]

\* else { distmap[y][x] = ..; for m in self.available_moves(..) ..
Expand ==
    /\ EntersElse
    /\ \E overflow_checks \in BuildProfiles(surface) :
          /\ ~available_movesPanics(surface, Top.position, overflow_checks)
          /\ stack' = [stack EXCEPT
                         ![Len(stack)].entered = TRUE,
                         ![Len(stack)].moves =
                             available_moves(surface, Top.position, up)]
    /\ RecordDistance
    /\ UNCHANGED <<input, up, pc, surface, result>>

\* the same, when available_moves panics
PanicMoves ==
    /\ EntersElse
    /\ \E overflow_checks \in BuildProfiles(surface) :
          available_movesPanics(surface, Top.position, overflow_checks)
    /\ RecordDistance
    /\ pc' = "panic"
    /\ UNCHANGED <<input, up, surface, stack, result>>

\* one turn of the for loop up to the recursive call: clone, step, call
\* with the current new_max
Recurse ==
    /\ pc = "search"
    /\ Top.entered
    /\ Top.moves # <<>>
    /\ stack' = Append([stack EXCEPT ![Len(stack)].moves = Tail(@)],
                       Frame(step([position |-> Top.position,
                                   previous |-> Top.previous],
                                  Head(Top.moves)),
                             Top.new_max))
    /\ UNCHANGED <<input, up, pc, surface, distmap, result>>

\* return *paths.iter().min().unwrap()
ReturnMin ==
    /\ pc = "search"
    /\ Top.entered
    /\ Top.moves = <<>>
    /\ Top.paths # <<>>
    /\ Return(MinOf(Top.paths))
    /\ UNCHANGED <<input, up, surface, distmap>>

\* the same on an empty paths: min() is None and unwrap() panics
PanicNoPath ==
    /\ pc = "search"
    /\ Top.entered
    /\ Top.moves = <<>>
    /\ Top.paths = <<>>
    /\ pc' = "panic"
    /\ UNCHANGED <<input, up, surface, distmap, stack, result>>

Next ==
    \/ shortest_path_up
    \/ shortest_path_down
    \/ ReturnAtGoal
    \/ ReturnRevisit
    \/ ReturnBound
    \/ PanicDistmapIndex
    \/ ReturnDistmap
    \/ Expand
    \/ PanicMoves
    \/ Recurse
    \/ ReturnMin
    \/ PanicNoPath

Spec == Init /\ [][Next]_vars
\* ------------------------------------------------------------ reference
\* What the claims speak of, stated on the text and the grid directly,
\* without the operators above.

\* row and column (0-indexed) of the character at index i of the text
RowOfIndex(text, i) == Cardinality({j \in 1..(i - 1) : text[j] = CharLF})

ColOfIndex(text, i) ==
    Cardinality({j \in 1..(i - 1) :
                    text[j] # CharLF /\ \A k \in j..(i - 1) : text[k] # CharLF})

CellIndices(text) == {i \in 1..Len(text) : text[i] # CharLF}

RowCount(text) ==
    IF text = <<>> THEN 0
    ELSE Cardinality({j \in 1..Len(text) : text[j] = CharLF})
            + (IF text[Len(text)] = CharLF THEN 0 ELSE 1)

RowLength(text, r) ==
    Cardinality({i \in CellIndices(text) : RowOfIndex(text, i) = r})

\* a valid input: the alphabet a..z, 'S', 'E'; one 'S', one 'E'; rows of
\* equal length
WellFormed(text) ==
    /\ \A i \in CellIndices(text) :
          \/ (CharLowA <= text[i] /\ text[i] <= CharLowZ)
          \/ text[i] \in {CharS, CharE}
    /\ Cardinality({i \in 1..Len(text) : text[i] = CharS}) = 1
    /\ Cardinality({i \in 1..Len(text) : text[i] = CharE}) = 1
    /\ \A r \in 0..(RowCount(text) - 1) :
          RowLength(text, r) = RowLength(text, 0)

PositionOfChar(text, c) ==
    LET i == CHOOSE k \in 1..Len(text) : text[k] = c
    IN  Pos(ColOfIndex(text, i), RowOfIndex(text, i))

Built == surface # NoSurface

Rectangular(s) ==
    /\ Len(s.heights) >= 1
    /\ Len(s.heights[1]) >= 1
    /\ \A i \in 1..Len(s.heights) : Len(s.heights[i]) = Len(s.heights[1])

Cells(s) ==
    {Pos(x, y) : x \in 0..(Len(s.heights[1]) - 1),
                 y \in 0..(Len(s.heights) - 1)}

Elevation(s, p) == s.heights[p.y + 1][p.x + 1]

Adjacent(p, q) ==
    \/ (p.y = q.y /\ (p.x = q.x + 1 \/ q.x = p.x + 1))
    \/ (p.x = q.x /\ (p.y = q.y + 1 \/ q.y = p.y + 1))

\* the rule of a step from p to its neighbour q
LegalStep(s, p, q, ascend) ==
    IF ascend THEN Elevation(s, q) <= Elevation(s, p) + 1
    ELSE Elevation(s, q) >= Elevation(s, p) - 1

IsGoal(s, p, ascend) ==
    IF ascend THEN p = s.best_signal ELSE Elevation(s, p) = CharLowA

\* breadth-first distance from the frontier to the nearest goal cell
RECURSIVE BfsDistance(_, _, _, _, _)
BfsDistance(s, ascend, frontier, seen, d) ==
    IF \E p \in frontier : IsGoal(s, p, ascend) THEN d
    ELSE IF frontier = {} THEN UsizeMax
    ELSE LET next == {q \in Cells(s) \ seen :
                        \E p \in frontier :
                            Adjacent(p, q) /\ LegalStep(s, p, q, ascend)}
         IN  BfsDistance(s, ascend, next, seen \cup next, d + 1)

\* the cell the search starts from: 'S' going up, 'E' going down
SearchStart ==
    IF up THEN PositionOfChar(input, CharS) ELSE PositionOfChar(input, CharE)

ShortestLength ==
    BfsDistance(surface, up, {SearchStart}, {SearchStart}, 0)

Ended == pc \in {"done", "panic"}

\* the surface has just been built and no call has run yet
JustBuilt == pc = "search" /\ Len(stack) = 1 /\ ~stack[1].entered

\* the state the constructors leave: they panicked, or the search is about
\* to start
AfterConstruction == (pc = "panic" /\ stack = <<>>) \/ JustBuilt

\* whenever the search returns on a valid input, it returns the
\* breadth-first distance (usize::MAX when there is no path)
ReturnedLengthIsShortest ==
    (pc = "done" /\ WellFormed(input)) => result = ShortestLength

\* ------------------------------------------------------------ claims
\* C1: on a valid grid whose target is reachable from the start by ascend
\* steps, shortest_path_up returns the minimum number of such steps; on
\* the grid of the doc tests it returns 31.
C1_ShortestPathUp ==
    (Ended /\ up /\ Built /\ WellFormed(input)
        /\ ShortestLength < UsizeMax)
    => /\ pc = "done"
       /\ result = ShortestLength
       /\ (input = CanonicalText => result = 31)

\* C2: on a valid grid in which a cell of elevation 'a' is reachable from
\* the target by descend steps, shortest_path_down returns the minimum
\* number of such steps; on the grid of the doc tests it returns 29.
C2_ShortestPathDown ==
    (Ended /\ ~up /\ Built /\ WellFormed(input)
        /\ ShortestLength < UsizeMax)
    => /\ pc = "done"
       /\ result = ShortestLength
       /\ (input = CanonicalText => result = 29)

\* C3: on a valid grid with no legal path to the goal, both searches
\* return usize::MAX and never panic.
C3_NoPathReturnsSentinel ==
    (Ended /\ Built /\ WellFormed(input) /\ ShortestLength = UsizeMax)
    => /\ pc = "done"
       /\ result = UsizeMax

\* C4: a text that is not valid (a character outside the alphabet, rows of
\* unequal length, no or several 'S', no or several 'E') is rejected: no
\* Surface is built and no step count is produced.
C4_MalformedRejected ==
    (pc # "input" /\ ~WellFormed(input))
    => (pc = "panic" /\ ~Built)
\* C5: for a valid text, Surface::new builds one row per line and one
\* column per character, keeps every lowercase letter, holds 'a' at the
\* cell of 'S' and 'z' at the cell of 'E', and best_signal is the
\* (column, row) of 'E'; Player::new returns the (column, row) of 'S' with
\* an empty visited set.
C5_SurfaceMatchesText ==
    (AfterConstruction /\ WellFormed(input))
    => /\ Built
       /\ Len(surface.heights) = RowCount(input)
       /\ \A r \in 1..Len(surface.heights) :
             Len(surface.heights[r]) = RowLength(input, 0)
       /\ \A i \in CellIndices(input) :
             surface.heights[RowOfIndex(input, i) + 1]
                            [ColOfIndex(input, i) + 1]
               = IF input[i] = CharS THEN CharLowA
                 ELSE IF input[i] = CharE THEN CharLowZ
                 ELSE input[i]
       /\ surface.best_signal = PositionOfChar(input, CharE)
       /\ (up /\ Len(stack) >= 1)
             => /\ stack[1].position = PositionOfChar(input, CharS)
                /\ stack[1].previous = {}

\* a valid text of several rows and columns with a letter other than 'a'
\* and 'z', its 'E' off the first row and column, has been parsed for
\* shortest_path_up
C5_Witness ==
    /\ pc = "search"
    /\ up
    /\ WellFormed(input)
    /\ Len(stack) = 1
    /\ ~stack[1].entered
    /\ Len(surface.heights) >= 2
    /\ Len(surface.heights[1]) >= 2
    /\ surface.best_signal.x >= 1
    /\ surface.best_signal.y >= 1
    /\ stack[1].position # Pos(0, 0)
    /\ \E i \in CellIndices(input) :
          input[i] \notin {CharS, CharE, CharLowA, CharLowZ}

\* the neighbour of p in direction m
Neighbour(p, m) ==
    IF m = "Right" THEN Pos(p.x + 1, p.y)
    ELSE IF m = "Left" THEN Pos(p.x - 1, p.y)
    ELSE IF m = "Down" THEN Pos(p.x, p.y + 1)
    ELSE Pos(p.x, p.y - 1)

LegalDirections(s, p, ascend) ==
    {m \in {"Right", "Left", "Down", "Up"} :
        /\ Neighbour(p, m) \in Cells(s)
        /\ LegalStep(s, p, Neighbour(p, m), ascend)}

\* C6: at every position of a rectangular surface and in either mode,
\* available_moves returns exactly the directions whose neighbour is in
\* the grid and passes the mode's rule, each once, in non-increasing order
\* of the neighbour's elevation.
C6_AvailableMoves ==
    (JustBuilt /\ Rectangular(surface))
    => \A p \in Cells(surface) : \A ascend \in BOOLEAN :
          LET mv == available_moves(surface, p, ascend)
          IN  /\ ~available_movesPanics(surface, p, TRUE)
              /\ {mv[i] : i \in 1..Len(mv)}
                    = LegalDirections(surface, p, ascend)
              /\ Len(mv) = Cardinality(LegalDirections(surface, p, ascend))
              /\ \A i \in 1..Len(mv) : \A j \in i..Len(mv) :
                    Elevation(surface, Neighbour(p, mv[i]))
                        >= Elevation(surface, Neighbour(p, mv[j]))

\* a surface with an inner cell that has a neighbour ruled out, two moves
\* to different elevations and two moves to the same elevation
C6_Witness ==
    /\ JustBuilt
    /\ Rectangular(surface)
    /\ \E p \in Cells(surface) :
          LET mv == available_moves(surface, p, TRUE)
          IN  /\ \A m \in {"Right", "Left", "Down", "Up"} :
                    Neighbour(p, m) \in Cells(surface)
              /\ Len(mv) = 3
              /\ Elevation(surface, Neighbour(p, mv[1]))
                    > Elevation(surface, Neighbour(p, mv[2]))
              /\ Elevation(surface, Neighbour(p, mv[2]))
                    = Elevation(surface, Neighbour(p, mv[3]))

\* the calls C7 speaks of: those that entered the else branch, and the
\* innermost call when it is about to return at the goal
RecordsOrReturnsAtGoal(k) ==
    \/ stack[k].entered
    \/ (k = Len(stack) /\ pc = "search" /\ end_condition(stack[k].position))

\* C7: in every call that records its position and expands moves, and in
\* every call that returns at the goal, the position is not in the visited
\* set, the visited set is exactly the positions of the calls below it, and
\* its size is the number of steps taken.
C7_NoRevisit ==
    \A k \in 1..Len(stack) :
        RecordsOrReturnsAtGoal(k)
        => /\ stack[k].position \notin stack[k].previous
           /\ stack[k].previous = {stack[j].position : j \in 1..(k - 1)}
           /\ Cardinality(stack[k].previous) = k - 1

\* a call four steps deep is about to return at the goal, above calls that
\* all entered the else branch
C7_Witness ==
    /\ pc = "search"
    /\ Len(stack) >= 5
    /\ ~Top.entered
    /\ end_condition(Top.position)
    /\ \A k \in 1..(Len(stack) - 1) : stack[k].entered

\* what a step does to the distance map
C8_Step ==
    /\ (pc = "input" /\ pc' = "search")
          => \A y \in 1..Len(distmap') : \A x \in 1..Len(distmap'[y]) :
                distmap'[y][x] = UsizeMax
    /\ pc = "search"
          => LET len == Cardinality(Top.previous)
                 px == Top.position.x + 1
                 py == Top.position.y + 1
                 expands == /\ Len(stack') = Len(stack)
                            /\ ~Top.entered
                            /\ stack'[Len(stack')].entered
             IN  /\ Len(distmap') = Len(distmap)
                 /\ \A y \in 1..Len(distmap) :
                       /\ Len(distmap'[y]) = Len(distmap[y])
                       /\ \A x \in 1..Len(distmap[y]) :
                             /\ distmap'[y][x] <= distmap[y][x]
                             /\ distmap'[y][x] # distmap[y][x]
                                   => (x = px /\ y = py)
                 /\ (expands \/ distmap' # distmap)
                       => /\ ~Top.entered
                          /\ len < distmap[py][px]
                          /\ distmap'[py][px] = len

\* C8: every cell of the distance map starts at usize::MAX and never
\* increases; a cell is written, and its moves expanded, only by a call
\* whose visited-count is strictly below the recorded value, and the value
\* written is that visited-count.
C8_DistmapMonotone == [][C8_Step]_vars

\* a cell that already holds a length is about to be written again, with a
\* shorter one
C8_Witness ==
    /\ EntersElse
    /\ At(distmap, Top.position.x, Top.position.y) < UsizeMax
    /\ Cardinality(Top.previous) >= 1

\* the innermost call is at the fourth test: not at the goal, not a
\* revisit, not cut by the bound
AtDistmapTest ==
    /\ pc = "search"
    /\ ~Top.entered
    /\ ~end_condition(Top.position)
    /\ Top.position \notin Top.previous
    /\ Cardinality(Top.previous) < Top.new_max - 1
    /\ InRange(distmap, Top.position.x, Top.position.y)

Recorded == At(distmap, Top.position.x, Top.position.y)

\* the step returns usize::MAX from the innermost call
ReturnsUnreachable ==
    IF Len(stack) = 1
    THEN pc' = "done" /\ result' = UsizeMax
    ELSE /\ Len(stack') = Len(stack) - 1
         /\ Len(stack'[Len(stack')].paths) = Len(stack[Len(stack')].paths) + 1
         /\ stack'[Len(stack')].paths[Len(stack'[Len(stack')].paths)]
               = UsizeMax

\* the step takes the innermost call into the else branch
GoesOnToExpand ==
    /\ distmap' = [distmap EXCEPT ![Top.position.y + 1][Top.position.x + 1] =
                                      Cardinality(Top.previous)]
    /\ \/ (Len(stack') = Len(stack) /\ stack'[Len(stack')].entered)
       \/ pc' = "panic"

\* C9 as claimed: the fourth test returns "unreachable" exactly when the
\* recorded length is strictly shorter than the visited-count; a call
\* whose position has a recorded length equal to its visited-count goes on
\* to record and expand.
C9_StrictTest ==
    [][AtDistmapTest
        => /\ ReturnsUnreachable <=> (Recorded < Cardinality(Top.previous))
           /\ (Recorded = Cardinality(Top.previous)) => GoesOnToExpand]_vars

\* C9 as the code has it: the fourth test returns "unreachable" exactly
\* when the recorded length is shorter than or equal to the visited-count;
\* a call whose position has a recorded length equal to its visited-count
\* is returned as unreachable, and only a call with a strictly smaller
\* visited-count goes on to record and expand.
C9_NonStrictTest ==
    [][AtDistmapTest
        => /\ ReturnsUnreachable <=> (Recorded <= Cardinality(Top.previous))
           /\ (Recorded > Cardinality(Top.previous)) <=> GoesOnToExpand]_vars

\* a call reaches the fourth test at a position whose recorded length
\* equals its visited-count
C9_Witness ==
    /\ AtDistmapTest
    /\ Recorded = Cardinality(Top.previous)

\* C10: on a valid grid the search finishes with every call returned (it
\* never stops in a panic, with calls that will not return), and the
\* visited-count of every call is at most the number of cells.
C10_FinishesWithinDepth ==
    \/ /\ pc # "panic"
       /\ \A k \in 1..Len(stack) :
             Cardinality(stack[k].previous)
                <= Len(surface.heights) * Len(surface.heights[1])
    \/ ~WellFormed(input)

\* the depth bound of C10 alone, which holds on every input
DepthWithinCells ==
    \A k \in 1..Len(stack) :
        Cardinality(stack[k].previous)
            <= Len(surface.heights) * Len(surface.heights[1])
====
